---- MODULE Spec2Model ----
(***************************************************************************)
(* Meeting Recap Assistant: the POST /api/recap route handler              *)
(* (src/app/api/recap/route.ts) and the client page that calls it and      *)
(* keeps the local history (src/unnamed/part_001, same logic as            *)
(* src/unnamed/part_000).                                                   *)
(*                                                                         *)
(* Text is a sequence of characters (one-character strings); a fixed       *)
(* literal of the source, which the program never slices or trims, is kept *)
(* as one unit, so `Run did not complete: ${run.status}` is the two-unit   *)
(* text <<"Run did not complete: ", status>>.                              *)
(***************************************************************************)
EXTENDS Integers, Sequences, FiniteSets, TLC

----------------------------------------------------------------------------
(* Bounds of the model *)

\* generations recorded in one run of the page specification
MaxGen == 2
\* generations recorded in one run of the history specification
MaxLongGen == 22
\* page reloads of one run
MaxReloads == 1
\* requests sent to the route by callers other than the page
MaxDirect == 1
\* files being read at one time
MaxReading == 2

(* Constants of the program *)

\* [item, ...history].slice(0, 20)
HistoryLimit == 20
\* (data.notes_markdown || "").slice(0, 120)
SnippetLimit == 120

----------------------------------------------------------------------------
(* Text *)

Min(a, b) == IF a < b THEN a ELSE b

\* n copies of the character c
Fill(n, c) == [i \in 1..n |-> c]

\* String.prototype.slice(0, n) for n >= 0
Slice0(s, n) == SubSeq(s, 1, Min(n, Len(s)))

IsSpace(c) == c \in {" ", "\n", "\t"}

RECURSIVE TrimStart(_)
TrimStart(s) ==
  IF s = <<>> THEN <<>>
  ELSE IF IsSpace(Head(s)) THEN TrimStart(Tail(s)) ELSE s

RECURSIVE TrimEnd(_)
TrimEnd(s) ==
  IF s = <<>> THEN <<>>
  ELSE IF IsSpace(s[Len(s)]) THEN TrimEnd(SubSeq(s, 1, Len(s) - 1)) ELSE s

\* String.prototype.trim
Trim(s) == TrimEnd(TrimStart(s))

----------------------------------------------------------------------------
(* JSON values: k is the kind, s the text of a string or the digits of a   *)
(* number, m the members of an object (a function from keys), a the items  *)
(* of an array.  "undefined" is JavaScript's undefined (no JSON value).    *)

JUndefined == [k |-> "undefined", s |-> <<>>, m |-> <<>>, a |-> <<>>]
JNull == [k |-> "null", s |-> <<>>, m |-> <<>>, a |-> <<>>]
JStr(text) == [k |-> "str", s |-> text, m |-> <<>>, a |-> <<>>]
JNum(digits) == [k |-> "num", s |-> digits, m |-> <<>>, a |-> <<>>]
JObj(members) == [k |-> "obj", s |-> <<>>, m |-> members, a |-> <<>>]
JArr(items) == [k |-> "arr", s |-> <<>>, m |-> <<>>, a |-> items]

\* a property name, or a fixed literal of the source, as a text
Lit(name) == <<name>>

\* v[key] of JavaScript, for v neither null nor undefined and key no
\* built-in property
Get(v, key) ==
  IF v.k = "obj" /\ Lit(key) \in DOMAIN v.m THEN v.m[Lit(key)] ELSE JUndefined

\* ToBoolean
Truthy(v) ==
  CASE v.k \in {"undefined", "null"} -> FALSE
    [] v.k = "str" -> v.s # <<>>
    [] v.k = "num" -> v.s # <<"0">>
    [] OTHER -> TRUE

\* a || b
OrElse(a, b) == IF Truthy(a) THEN a ELSE b

\* a ?? b
Coalesce(a, b) == IF a.k \in {"undefined", "null"} THEN b ELSE a

(* JSON text: a sequence of tokens [t, s]; t is a punctuation mark, "str", *)
(* "num", "null", or "bad" for characters no JSON text contains.           *)

Tok(t) == [t |-> t, s |-> <<>>]
TStr(text) == [t |-> "str", s |-> text]
TNum(digits) == [t |-> "num", s |-> digits]

ParseFail == [ok |-> FALSE, v |-> JUndefined]
ParseOk(v) == [ok |-> TRUE, v |-> v]

IsScalarTok(tk) == tk.t \in {"str", "num", "null"}

ScalarOf(tk) ==
  CASE tk.t = "str" -> JStr(tk.s)
    [] tk.t = "num" -> JNum(tk.s)
    [] OTHER -> JNull

\* the members between the braces of an object whose values are scalars;
\* a repeated key keeps its last value
RECURSIVE ParseMembers(_)
ParseMembers(ts) ==
  IF Len(ts) < 3 \/ ts[1].t # "str" \/ ts[2].t # ":" \/ ~IsScalarTok(ts[3])
  THEN ParseFail
  ELSE LET here == ts[1].s :> ScalarOf(ts[3])
       IN  IF Len(ts) = 3 THEN ParseOk(here)
           ELSE IF ts[4].t # "," THEN ParseFail
           ELSE LET rest == ParseMembers(SubSeq(ts, 5, Len(ts)))
                IN  IF rest.ok THEN ParseOk(rest.v @@ here) ELSE ParseFail

\* a scalar, or an object of scalars
ParseFlat(ts) ==
  IF Len(ts) = 1 THEN
    IF IsScalarTok(ts[1]) THEN ParseOk(ScalarOf(ts[1])) ELSE ParseFail
  ELSE IF Len(ts) >= 2 /\ ts[1].t = "{" /\ ts[Len(ts)].t = "}" THEN
    IF Len(ts) = 2 THEN ParseOk(JObj(<<>>))
    ELSE LET ms == ParseMembers(SubSeq(ts, 2, Len(ts) - 1))
         IN  IF ms.ok THEN ParseOk(JObj(ms.v)) ELSE ParseFail
  ELSE ParseFail

\* the length of the first item of a comma-separated list of flat values
ItemEnd(ts) ==
  IF ts[1].t = "{"
  THEN IF \E j \in 1..Len(ts) : ts[j].t = "}"
       THEN CHOOSE j \in 1..Len(ts) :
              ts[j].t = "}" /\ \A i \in 1..(j - 1) : ts[i].t # "}"
       ELSE 0
  ELSE 1

RECURSIVE ParseItems(_)
ParseItems(ts) ==
  IF ts = <<>> THEN ParseFail
  ELSE LET e == ItemEnd(ts)
           first == IF e = 0 THEN ParseFail ELSE ParseFlat(SubSeq(ts, 1, e))
       IN  IF ~first.ok THEN ParseFail
           ELSE IF Len(ts) = e THEN ParseOk(<<first.v>>)
           ELSE IF ts[e + 1].t # "," THEN ParseFail
           ELSE LET rest == ParseItems(SubSeq(ts, e + 2, Len(ts)))
                IN  IF rest.ok THEN ParseOk(<<first.v>> \o rest.v) ELSE ParseFail

\* JSON.parse, for texts nested at most two deep (an array of flat values):
\* ok = FALSE is the SyntaxError
JsonParse(ts) ==
  IF Len(ts) >= 2 /\ ts[1].t = "[" /\ ts[Len(ts)].t = "]" THEN
    IF Len(ts) = 2 THEN ParseOk(JArr(<<>>))
    ELSE LET items == ParseItems(SubSeq(ts, 2, Len(ts) - 1))
         IN  IF items.ok THEN ParseOk(JArr(items.v)) ELSE ParseFail
  ELSE ParseFlat(ts)

\* JSON.stringify of a scalar
ScalarToks(v) ==
  CASE v.k = "str" -> <<TStr(v.s)>>
    [] v.k = "num" -> <<TNum(v.s)>>
    [] OTHER -> <<Tok("null")>>

\* JSON.stringify of an object of scalars, obj a record and `keys` its field
\* names in insertion order; a member whose value is undefined is left out
RECURSIVE MemberToks(_, _, _)
MemberToks(obj, keys, started) ==
  IF keys = <<>> THEN <<>>
  ELSE LET key == Head(keys)
           v == obj[key]
       IN  IF v.k = "undefined" THEN MemberToks(obj, Tail(keys), started)
           ELSE (IF started THEN <<Tok(",")>> ELSE <<>>)
                \o <<TStr(Lit(key)), Tok(":")>> \o ScalarToks(v)
                \o MemberToks(obj, Tail(keys), TRUE)

ObjectToks(obj, keys) == <<Tok("{")>> \o MemberToks(obj, keys, FALSE) \o <<Tok("}")>>

\* the characters of a JSON text
RECURSIVE Render(_)
Render(ts) ==
  IF ts = <<>> THEN <<>>
  ELSE (CASE Head(ts).t = "str" -> <<"\"">> \o Head(ts).s \o <<"\"">>
          [] Head(ts).t = "num" -> Head(ts).s
          [] OTHER -> <<Head(ts).t>>) \o Render(Tail(ts))

----------------------------------------------------------------------------
(* base64, as Buffer.toString("base64") writes it and atob reads it *)

B64Alphabet ==
  << "A","B","C","D","E","F","G","H","I","J","K","L","M","N","O","P",
     "Q","R","S","T","U","V","W","X","Y","Z","a","b","c","d","e","f",
     "g","h","i","j","k","l","m","n","o","p","q","r","s","t","u","v",
     "w","x","y","z","0","1","2","3","4","5","6","7","8","9","+","/" >>

B64Char(n) == B64Alphabet[n + 1]

RECURSIVE Base64Encode(_)
Base64Encode(bytes) ==
  IF bytes = <<>> THEN <<>>
  ELSE IF Len(bytes) = 1 THEN
    << B64Char(bytes[1] \div 4), B64Char((bytes[1] % 4) * 16), "=", "=" >>
  ELSE IF Len(bytes) = 2 THEN
    << B64Char(bytes[1] \div 4),
       B64Char((bytes[1] % 4) * 16 + bytes[2] \div 16),
       B64Char((bytes[2] % 16) * 4), "=" >>
  ELSE
    << B64Char(bytes[1] \div 4),
       B64Char((bytes[1] % 4) * 16 + bytes[2] \div 16),
       B64Char((bytes[2] % 16) * 4 + bytes[3] \div 64),
       B64Char(bytes[3] % 64) >>
    \o Base64Encode(SubSeq(bytes, 4, Len(bytes)))

B64Index(c) == (CHOOSE i \in 1..64 : B64Alphabet[i] = c) - 1

\* atob: the bytes of a padded base64 text
RECURSIVE Base64Decode(_)
Base64Decode(text) ==
  IF Len(text) < 4 THEN <<>>
  ELSE LET a == B64Index(text[1])
           b == B64Index(text[2])
           rest == Base64Decode(SubSeq(text, 5, Len(text)))
       IN  IF text[3] = "=" THEN << a * 4 + b \div 16 >>
           ELSE IF text[4] = "=" THEN
             << a * 4 + b \div 16, (b % 16) * 16 + B64Index(text[3]) \div 4 >>
           ELSE
             << a * 4 + b \div 16,
                (b % 16) * 16 + B64Index(text[3]) \div 4,
                (B64Index(text[3]) % 4) * 64 + B64Index(text[4]) >> \o rest

----------------------------------------------------------------------------
(* State *)

VARIABLES
  env,         \* process.env: which of the two secrets are set
  pc,          \* where POST stands: "idle", "POST", the remote call it awaits, "done"
  caller,      \* who awaits the response: "none", "page", "direct", "gone"
  wire,        \* the request body, a JSON text
  post,        \* POST's locals: transcript, mode, language, run (the status of the
               \* run createAndPoll returned), messages (messages.data),
               \* notes_markdown, voiceover_script
  run,         \* the status of the run at the remote service ("none" before it is created)
  calls,       \* the remote operations POST has invoked for this request, in order
  resp,        \* the response of POST: [status, body], body a JSON text
  directs,     \* requests sent so far by callers other than the page
  \* the page (useState of Page, and the browser around it)
  mode, language, transcript, loading, notes, audioUrl, audioBlob, error, history,
  storage,     \* localStorage[HISTORY_KEY]: [present, text]
  gen,         \* the handleGenerate that awaits fetch: what its closure captured
  download,    \* the archive this step saved, if it was a Download ZIP click
  now,         \* the clock, in readings: it has moved on whenever it is read
  reloads,     \* page reloads so far
  reading,     \* the FileReaders that have not finished: the text each will deliver
  made         \* every generation recorded so far, newest first: the item
               \* and the notes_markdown it was made from

srv == <<env, pc, caller, wire, post, run, calls, resp, directs>>
page == <<mode, language, transcript, loading, notes, audioUrl, audioBlob, error,
          history, storage, gen, now, reloads, made, reading>>

vars == <<srv, page, download>>

NoResp == [status |-> 0, body |-> <<>>]
NoBlob == [present |-> FALSE, bytes |-> <<>>, type |-> <<>>]
NoGen == [active |-> FALSE, mode |-> <<>>, language |-> <<>>, history |-> <<>>]
NoZip == [saved |-> FALSE, names |-> {}, notes |-> JUndefined, audio |-> NoBlob]
NoStorage == [present |-> FALSE, text |-> <<>>]
NoLocals ==
  [ transcript |-> <<>>, mode |-> JUndefined, language |-> JUndefined, run |-> "none",
    messages |-> <<>>, notes_markdown |-> JUndefined, voiceover_script |-> JUndefined ]

\* the states of a run (spec 4.2; the SDK's RunStatus)
NonTerminal == {"queued", "in_progress"}
Terminal == {"completed", "failed", "cancelled", "expired"}

----------------------------------------------------------------------------
(* POST /api/recap *)

\* NextResponse.json(body, { status })
Json(status, obj, keys) == [status |-> status, body |-> ObjectToks(obj, keys)]

\* an exception that leaves POST: the framework answers 500, no JSON body
Unhandled == [status |-> 500, body |-> <<Tok("Internal Server Error")>>]

ErrorJson(status, message) == Json(status, [error |-> JStr(message)], <<"error">>)

\* a variant that blames the caller
CaughtAsBadRequest(message) ==
  ErrorJson(400, IF message # <<>> THEN message ELSE Lit("Error"))

\* a variant that returns the notes it has with the error
CaughtWithNotes(message) ==
  Json(500, [ notes_markdown |-> post.notes_markdown,
              error |-> JStr(IF message # <<>> THEN message ELSE Lit("Error")) ],
       <<"notes_markdown", "error">>)

\* catch (err): { error: err?.message || String(err) }, 500
Caught(message) ==
  ErrorJson(500, IF message # <<>> THEN message ELSE Lit("Error"))

\* the messages remote calls fail with
ErrMessages == {Lit("Connection error."), <<>>}

Respond(r) ==
  /\ resp' = r
  /\ pc' = "done"

\* a variant that makes the call again
CallTwice(op, input) ==
  calls' = calls \o <<[op |-> op, input |-> input], [op |-> op, input |-> input]>>

\* a remote call is made: it is recorded, whether it then succeeds or throws
Call(op, input) == calls' = Append(calls, [op |-> op, input |-> input])

Throws ==
  \E m \in ErrMessages : Respond(Caught(m))

languageInstruction(lang) ==
  IF lang = JStr(Lit("sv"))
  THEN "Please write the notes and voiceover script in Swedish."
  ELSE "Please write the notes and voiceover script in English."

\* a variant that overlooks the assistant id
MissingSecretKeyOnly(e) ==
  IF ~e.OPENAI_API_KEY THEN "OPENAI_API_KEY" ELSE ""

\* lines 19-30: the name of the secret that is not set, "" if both are
MissingSecret(e) ==
  IF ~e.OPENAI_API_KEY THEN "OPENAI_API_KEY"
  ELSE IF ~e.OPENAI_ASSISTANT_ID THEN "OPENAI_ASSISTANT_ID"
  ELSE ""

\* a variant that does not trim
UntrimmedTranscript(given) == given.s

\* line 39, for a transcript that is a string
TrimmedTranscript(given) == Trim(given.s)

\* a variant whose default is the other mode
ModeOfDefaultAudio(body) == OrElse(Get(body, "mode"), JStr(Lit("notes+audio")))

\* line 40
ModeOf(body) == OrElse(Get(body, "mode"), JStr(Lit("notes")))

\* line 41
LanguageOf(body) == OrElse(Get(body, "language"), JStr(Lit("en")))

\* lines 19-48: the checks before the first remote call
PostEntry ==
  /\ pc = "POST"
  /\ UNCHANGED <<env, caller, wire, run, calls, directs, page>>
  /\ download' = NoZip
  /\ IF MissingSecret(env) # "" THEN
       /\ Respond(ErrorJson(500, <<MissingSecret(env), " is not set">>))
       /\ UNCHANGED post
     ELSE LET parsed == JsonParse(wire)
              body == parsed.v
              given == OrElse(Get(body, "transcript"), JStr(<<>>))
              trimmed == TrimmedTranscript(given)
          IN  IF ~parsed.ok THEN
                /\ Respond(ErrorJson(400, Lit("Invalid JSON")))
                /\ UNCHANGED post
              ELSE IF body.k = "null" \/ given.k # "str" THEN
                \* body.transcript of null, or .trim of a value that has none
                /\ Respond(Unhandled)
                /\ UNCHANGED post
              ELSE IF trimmed = <<>> THEN
                /\ Respond(ErrorJson(400, Lit("Transcript is empty")))
                /\ UNCHANGED post
              ELSE
                /\ pc' = "threads.create"
                /\ post' = [ NoLocals EXCEPT
                               !.transcript = trimmed,
                               !.mode = ModeOf(body),
                               !.language = LanguageOf(body) ]
                /\ UNCHANGED resp

\* lines 56-63
ThreadsCreate ==
  /\ pc = "threads.create"
  /\ Call("threads.create",
          JStr(<<languageInstruction(post.language), "\n\nTranscript:\n\n">>
               \o post.transcript))
  /\ UNCHANGED <<env, caller, wire, post, directs, page>>
  /\ download' = NoZip
  /\ \/ /\ pc' = "runs.create"
        /\ UNCHANGED <<run, resp>>
     \/ /\ Throws
        /\ UNCHANGED run

\* lines 65-68: createAndPoll creates the run ...
RunsCreate ==
  /\ pc = "runs.create"
  /\ Call("runs.create", JUndefined)
  /\ UNCHANGED <<env, caller, wire, post, directs, page>>
  /\ download' = NoZip
  /\ \/ /\ pc' = "runs.poll"
        /\ run' = "queued"
        /\ UNCHANGED resp
     \/ /\ Throws
        /\ UNCHANGED run

\* a variant that knows one way for a run to go wrong
NotCompletedOnlyFailed(status) == status = "failed"

\* line 70
NotCompleted(status) == status # "completed"

\* ... and retrieves it until its status is no longer queued or in_progress;
\* no timeout and no abort signal is passed.  Lines 70-75 follow.
RunsPoll ==
  /\ pc = "runs.poll"
  /\ UNCHANGED <<env, caller, wire, run, calls, directs, page>>
  /\ download' = NoZip
  /\ \/ /\ run \in NonTerminal
        /\ pc' = "runs.sleep"
        /\ UNCHANGED <<post, resp>>
     \/ /\ run \in Terminal
        /\ post' = [post EXCEPT !.run = run]
        /\ IF NotCompleted(run)
           THEN Respond(ErrorJson(500, <<"Run did not complete: ", run>>))
           ELSE pc' = "messages.list" /\ UNCHANGED resp
     \/ /\ Throws
        /\ UNCHANGED post

\* the wait between two retrievals
RunsSleep ==
  /\ pc = "runs.sleep"
  /\ pc' = "runs.poll"
  /\ UNCHANGED <<env, caller, wire, post, run, calls, resp, directs, page>>
  /\ download' = NoZip

\* the remote service works on the run
RunAdvances ==
  /\ run \in NonTerminal
  /\ run' \in (IF run = "queued" THEN {"in_progress"} ELSE {}) \cup Terminal
  /\ UNCHANGED <<env, pc, caller, wire, post, calls, resp, directs, page>>
  /\ download' = NoZip

(* messages.list: the thread's messages, newest first; the text of a text  *)
(* part is a JSON text or not                                               *)

TextPart(value) == [type |-> "text", text |-> value]
ImagePart == [type |-> "image_file", text |-> <<>>]
Msg(role, content) == [role |-> role, content |-> content]

\* messages.data.find((m) => m.role === "assistant"): its index, 0 if none
FindAssistant(data) ==
  IF \E i \in 1..Len(data) : data[i].role = "assistant"
  THEN CHOOSE i \in 1..Len(data) :
         /\ data[i].role = "assistant"
         /\ \A j \in 1..(i - 1) : data[j].role # "assistant"
  ELSE 0

SuccessKeys == <<"notes_markdown", "audioBase64", "mimeType">>

\* line 110
NotesOnly(m) == m = JStr(Lit("notes"))

\* lines 111-115
NotesResponse(markdown) ==
  Json(200, [notes_markdown |-> markdown, audioBase64 |-> JNull, mimeType |-> JNull],
       SuccessKeys)

\* a variant that leaves the type out
AudioResponseNoType(markdown, bytes) ==
  Json(200, [ notes_markdown |-> markdown,
              audioBase64 |-> JStr(Base64Encode(bytes)),
              mimeType |-> JNull ], SuccessKeys)

\* a variant that leaves the bytes out
AudioResponseNoBytes(markdown, bytes) ==
  Json(200, [ notes_markdown |-> markdown,
              audioBase64 |-> JNull,
              mimeType |-> JStr(Lit("audio/mpeg")) ], SuccessKeys)

\* lines 124-131
AudioResponse(markdown, bytes) ==
  Json(200, [ notes_markdown |-> markdown,
              audioBase64 |-> JStr(Base64Encode(bytes)),
              mimeType |-> JStr(Lit("audio/mpeg")) ], SuccessKeys)

\* a variant that answers with the error alone
ParseFailureNoRaw(raw) ==
  Json(500, [error |-> JStr(Lit("Failed to parse JSON from assistant"))], <<"error">>)

\* lines 100-104
ParseFailure(raw) ==
  Json(500, [ error |-> JStr(Lit("Failed to parse JSON from assistant")),
              raw |-> JStr(Render(raw)) ],
       <<"error", "raw">>)

\* lines 78-116, for the messages `data`
AfterMessages(data) ==
  LET at == FindAssistant(data)
      assistantMsg == data[at]
      firstPart == assistantMsg.content[1]
      raw == firstPart.text
      decoded == JsonParse(raw)
      parsed == decoded.v
      notes_markdown == Coalesce(Get(parsed, "notes_markdown"), JStr(<<>>))
      voiceover_script == Coalesce(Get(parsed, "voiceover_script"), JStr(<<>>))
      listed == [post EXCEPT !.messages = data]
  IN  IF at = 0 \/ Len(assistantMsg.content) = 0 THEN
        /\ Respond(ErrorJson(500, Lit("No assistant response found")))
        /\ post' = listed
      ELSE IF firstPart.type # "text" THEN
        /\ Respond(ErrorJson(500, Lit("Unexpected assistant content type")))
        /\ post' = listed
      ELSE IF ~decoded.ok THEN
        /\ Respond(ParseFailure(raw))
        /\ post' = listed
      ELSE IF parsed.k = "null" THEN
        \* parsed.notes_markdown of null throws inside the try
        /\ Respond(Caught(Lit("Cannot read properties of null (reading 'notes_markdown')")))
        /\ post' = listed
      ELSE IF NotesOnly(post.mode) THEN
        /\ Respond(NotesResponse(notes_markdown))
        /\ post' = [listed EXCEPT !.notes_markdown = notes_markdown,
                                  !.voiceover_script = voiceover_script]
      ELSE
        /\ pc' = "speech.create"
        /\ post' = [listed EXCEPT !.notes_markdown = notes_markdown,
                                  !.voiceover_script = voiceover_script]
        /\ UNCHANGED resp

\* line 77, then lines 78-116
MessagesList(pool) ==
  /\ pc = "messages.list"
  /\ Call("messages.list", JUndefined)
  /\ UNCHANGED <<env, caller, wire, run, directs, page>>
  /\ download' = NoZip
  /\ \/ \E data \in pool : AfterMessages(data)
     \/ /\ Throws
        /\ UNCHANGED post

\* lines 118-131
SpeechCreate(pool) ==
  /\ pc = "speech.create"
  /\ Call("audio.speech.create", post.voiceover_script)
  /\ UNCHANGED <<env, caller, wire, post, run, directs, page>>
  /\ download' = NoZip
  /\ \/ \E bytes \in pool : Respond(AudioResponse(post.notes_markdown, bytes))
     \/ Throws

----------------------------------------------------------------------------
(* What the environment supplies *)

\* notes of n characters; the characters past the snippet limit differ
Notes(n) == [i \in 1..n |-> IF i <= SnippetLimit THEN "n" ELSE "+"]

\* the assistant's texts
Reply(markdown, script) ==
  ObjectToks([notes_markdown |-> markdown, voiceover_script |-> script],
             <<"notes_markdown", "voiceover_script">>)

ReplyFull == Reply(JStr(Notes(3)), JStr(<<"h", "i">>))
ReplyNoScript == Reply(JStr(Notes(2)), JUndefined)
ReplyNoNotes == Reply(JUndefined, JStr(<<"h", "i">>))
ReplyNull == <<Tok("null")>>
ReplyNumber == <<TNum(<<"5">>)>>
ReplyProse == <<Tok("Here are your notes:"), Tok("{")>>
ReplyCut == <<Tok("{"), TStr(Lit("notes_markdown")), Tok(":"), TStr(<<"h", "i">>)>>

UserMsg == Msg("user", <<TextPart(<<Tok("Transcript:")>>)>>)

Messages ==
  { <<>>,
    <<UserMsg>>,
    <<Msg("assistant", <<>>), UserMsg>>,
    <<Msg("assistant", <<ImagePart>>), UserMsg>>,
    <<Msg("assistant", <<ImagePart, TextPart(ReplyFull)>>), UserMsg>>,
    <<Msg("assistant", <<TextPart(ReplyFull)>>), UserMsg>>,
    <<Msg("assistant", <<TextPart(ReplyNoScript)>>), UserMsg>>,
    <<Msg("assistant", <<TextPart(ReplyNoNotes)>>), UserMsg>>,
    <<Msg("assistant", <<TextPart(ReplyNull)>>), UserMsg>>,
    <<Msg("assistant", <<TextPart(ReplyNumber)>>), UserMsg>>,
    <<Msg("assistant", <<TextPart(ReplyProse)>>), UserMsg>>,
    <<Msg("assistant", <<TextPart(ReplyCut)>>), UserMsg>>,
    <<Msg("assistant", <<TextPart(ReplyNoScript), TextPart(ReplyFull)>>), UserMsg>>,
    <<Msg("assistant", <<TextPart(ReplyFull)>>), Msg("assistant", <<ImagePart>>), UserMsg>> }

\* the bytes speech synthesis returns
Audio == { <<>>, <<255>>, <<73, 68>>, <<73, 68, 51, 4>> }

\* request bodies
Body(t, m, l) ==
  ObjectToks([transcript |-> t, mode |-> m, language |-> l],
             <<"transcript", "mode", "language">>)

DirectBodies ==
  { <<Tok("{"), TStr(Lit("transcript"))>>,
    <<Tok("null")>>,
    <<TStr(<<"h", "i">>)>>,
    <<Tok("{"), Tok("}")>>,
    Body(JNum(<<"5">>), JUndefined, JUndefined),
    Body(JNum(<<"0">>), JStr(Lit("notes+audio")), JUndefined),
    Body(JNull, JStr(Lit("notes")), JStr(Lit("sv"))) }
  \cup { Body(JStr(t), m, l) :
           t \in { <<>>, <<" ", " ">>, <<" ", "h", "i", " ">> },
           m \in { JUndefined, JStr(<<>>), JStr(Lit("notes")), JStr(Lit("notes+audio")),
                   JStr(Lit("audio")) },
           l \in { JUndefined, JStr(Lit("sv")) } }

\* a caller other than the page sends a request
DirectRequest ==
  /\ pc \in {"idle", "done"}
  /\ caller # "page"
  /\ directs < MaxDirect
  /\ \E text \in DirectBodies : wire' = text
  /\ pc' = "POST"
  /\ caller' = "direct"
  /\ post' = NoLocals
  /\ run' = "none"
  /\ calls' = <<>>
  /\ resp' = NoResp
  /\ directs' = directs + 1
  /\ UNCHANGED <<env, page>>
  /\ download' = NoZip

----------------------------------------------------------------------------
(* The page *)


\* the members of a JavaScript object, from a record
Members(rec) == [key \in {Lit(n) : n \in DOMAIN rec} |-> rec[key[1]]]

ItemKeys == <<"id", "createdAt", "mode", "language", "notesSnippet">>

\* JSON.stringify(next) of a HistoryItem[]
RECURSIVE ItemsToks(_)
ItemsToks(items) ==
  IF items = <<>> THEN <<>>
  ELSE ObjectToks([n \in {"id", "createdAt", "mode", "language", "notesSnippet"}
                     |-> Get(Head(items), n)], ItemKeys)
       \o (IF Len(items) > 1 THEN <<Tok(",")>> ELSE <<>>)
       \o ItemsToks(Tail(items))

HistoryToks(items) == <<Tok("[")>> \o ItemsToks(items) \o <<Tok("]")>>

\* lines 45-53: the history the mount effect sets; without a stored text, or
\* with one JSON.parse rejects, the list stays empty
LoadHistory(stored) ==
  IF stored.present /\ stored.text # <<>> /\ JsonParse(stored.text).ok
  THEN JsonParse(stored.text).v.a
  ELSE <<>>

\* a variant that stores the entry it was given last, not the list
persistHistoryNewestOnly(next) ==
  /\ history' = next
  /\ storage' = [present |-> TRUE, text |-> HistoryToks(SubSeq(next, 1, 1))]

\* lines 56-61
persistHistory(next) ==
  /\ history' = next
  /\ storage' = [present |-> TRUE, text |-> HistoryToks(next)]

\* a variant that cuts one character late
SnippetOneMore(text) == Slice0(text, SnippetLimit + 1)

\* (data.notes_markdown || "").slice(0, 120)
Snippet(text) == Slice0(text, SnippetLimit)

\* a variant that starts the list anew
NextHistoryForgetful(item, list) == <<item>>

\* a variant that enters the item twice
NextHistoryTwice(item, list) == Slice0(<<item, item>> \o list, HistoryLimit)

\* a variant that does not cut the list
NextHistoryUncut(item, list) == <<item>> \o list

\* [item, ...history].slice(0, 20)
NextHistory(item, list) == Slice0(<<item>> \o list, HistoryLimit)

\* lines 99-105, at the time `at`
NewItem(at, markdown) ==
  JObj(Members([ id |-> JStr(Lit(ToString(at))),
                 createdAt |-> JStr(<<"ISO ", ToString(at)>>),
                 mode |-> JStr(gen.mode),
                 language |-> JStr(gen.language),
                 notesSnippet |-> JStr(Snippet(markdown)) ]))

\* lines 122-130
base64ToBlob(base64, mimeType) ==
  [present |-> TRUE, bytes |-> Base64Decode(base64), type |-> mimeType]

ServerIdle ==
  /\ pc' = "idle"
  /\ caller' = "none"
  /\ wire' = <<>>
  /\ post' = NoLocals
  /\ run' = "none"
  /\ calls' = <<>>
  /\ resp' = NoResp

\* lines 72-89: the Generate button, enabled while not loading
ClickGenerate(maxGen) ==
  /\ ~loading
  /\ now < maxGen
  /\ pc \in {"idle", "done"}
  /\ notes' = JStr(<<>>)
  /\ audioUrl' = 0
  /\ audioBlob' = NoBlob
  /\ download' = NoZip
  /\ UNCHANGED <<env, directs, mode, language, transcript, history, storage,
                 now, reloads, made, reading>>
  /\ IF Trim(transcript) = <<>> THEN
       /\ error' = JStr(Lit("Please paste a transcript or upload a text file first."))
       /\ UNCHANGED <<pc, caller, wire, post, run, calls, resp, loading, gen>>
     ELSE
       /\ error' = JNull
       /\ loading' = TRUE
       /\ gen' = [active |-> TRUE, mode |-> mode, language |-> language,
                  history |-> history]
       /\ wire' = Body(JStr(transcript), JStr(mode), JStr(language))
       /\ pc' = "POST"
       /\ caller' = "page"
       /\ post' = NoLocals
       /\ run' = "none"
       /\ calls' = <<>>
       /\ resp' = NoResp

\* lines 91-119: the response has arrived
FetchResolves ==
  /\ gen.active
  /\ caller = "page"
  /\ pc = "done"
  /\ ServerIdle
  /\ loading' = FALSE
  /\ gen' = NoGen
  /\ download' = NoZip
  /\ UNCHANGED <<env, directs, mode, language, transcript, reloads, reading>>
  /\ LET decoded == JsonParse(resp.body)
         data == decoded.v
         markdown == OrElse(Get(data, "notes_markdown"), JStr(<<>>))
         base64 == Get(data, "audioBase64")
         mimeType == Get(data, "mimeType")
         item == NewItem(now + 1, markdown.s)
     IN  IF resp.status \notin 200..299 THEN
           /\ error' = JStr(<<"Error ", ToString(resp.status), ": ">> \o Render(resp.body))
           /\ UNCHANGED <<notes, audioUrl, audioBlob, history, storage, now, made>>
         ELSE IF ~decoded.ok \/ data.k = "null" THEN
           \* res.json() rejects, or data.notes_markdown of null throws
           /\ error' = JStr(Lit("Unexpected response"))
           /\ UNCHANGED <<notes, audioUrl, audioBlob, history, storage, now, made>>
         ELSE IF markdown.k # "str" THEN
           \* .slice of a value that has none throws, after setNotes
           /\ notes' = markdown
           /\ error' = JStr(Lit("(data.notes_markdown || \"\").slice is not a function"))
           /\ UNCHANGED <<audioUrl, audioBlob, history, storage, now, made>>
         ELSE
           /\ notes' = markdown
           /\ now' = now + 1
           /\ persistHistory(NextHistory(item, gen.history))
           /\ made' = <<[item |-> item, notes_markdown |-> markdown]>> \o made
           /\ UNCHANGED error
           /\ IF Truthy(base64) /\ Truthy(mimeType) THEN
                /\ audioBlob' = base64ToBlob(base64.s, mimeType.s)
                /\ audioUrl' = now + 1
              ELSE UNCHANGED <<audioUrl, audioBlob>>

\* fetch rejects: the request never reached the route, or its response was lost
FetchFails ==
  /\ gen.active
  /\ caller = "page"
  /\ pc \in {"POST", "done"}
  /\ ServerIdle
  /\ error' = JStr(Lit("Failed to fetch"))
  /\ loading' = FALSE
  /\ gen' = NoGen
  /\ download' = NoZip
  /\ UNCHANGED <<env, directs, mode, language, transcript, notes, audioUrl, audioBlob,
                 history, storage, now, reloads, made, reading>>

\* a variant that packs the notes alone
ZipFilesNotesOnly(blob) == {"meeting_notes.md"}

\* lines 138-143: the names of the files of the archive
ZipFiles(blob) ==
  {"meeting_notes.md"} \cup (IF blob.present THEN {"meeting_recap.mp3"} ELSE {})

\* lines 132-154
handleDownloadZip ==
  /\ IF ~Truthy(notes) THEN
       /\ error' = JStr(Lit("There are no notes to download yet."))
       /\ download' = NoZip
     ELSE
       /\ download' = [ saved |-> TRUE,
                        names |-> ZipFiles(audioBlob),
                        notes |-> notes,
                        audio |-> audioBlob ]
       /\ UNCHANGED error
  /\ UNCHANGED <<srv, mode, language, transcript, loading, notes, audioUrl, audioBlob,
                 history, storage, gen, now, reloads, made, reading>>

\* a variant that marks every snippet
RestoredAlwaysMarked(notesSnippet) == notesSnippet \o <<" ", ".", ".", ".">>

\* line 179
Restored(notesSnippet) ==
  notesSnippet \o (IF Len(notesSnippet) = 120 THEN <<" ", ".", ".", ".">> ELSE <<>>)

\* lines 178-180, for the item at place i of the list
restoreFromHistory(i) ==
  /\ i \in 1..Len(history)
  /\ notes' = JStr(Restored(Get(history[i], "notesSnippet").s))
  /\ UNCHANGED <<srv, mode, language, transcript, loading, audioUrl, audioBlob, error,
                 history, storage, gen, now, reloads, made, reading>>
  /\ download' = NoZip

\* the mode radio buttons, the language buttons, the textarea
setMode(m) ==
  /\ mode' = m
  /\ UNCHANGED <<srv, language, transcript, loading, notes, audioUrl, audioBlob, error,
                 history, storage, gen, now, reloads, made, reading>>
  /\ download' = NoZip

setLanguage(l) ==
  /\ language' = l
  /\ UNCHANGED <<srv, mode, transcript, loading, notes, audioUrl, audioBlob, error,
                 history, storage, gen, now, reloads, made, reading>>
  /\ download' = NoZip

setTranscript(t) ==
  /\ transcript' = t
  /\ UNCHANGED <<srv, mode, language, loading, notes, audioUrl, audioBlob, error,
                 history, storage, gen, now, reloads, made, reading>>
  /\ download' = NoZip

(* File upload: a file has a name (its parts between the dots), the type    *)
(* the browser reports, and a text                                         *)

File(name, type, text) == [chosen |-> TRUE, name |-> name, type |-> type, text |-> text]

\* e.target.files is empty
NoFile == [chosen |-> FALSE, name |-> <<"">>, type |-> "", text |-> <<>>]

\* String.prototype.toLowerCase, for the names of the model
Lower(word) ==
  CASE word = "TXT" -> "txt"
    [] word = "MD" -> "md"
    [] word = "PDF" -> "pdf"
    [] word = "README" -> "readme"
    [] OTHER -> word

\* line 161: file.name.split(".").pop()?.toLowerCase()
Ext(name) == Lower(name[Len(name)])

\* lines 160-162
FileAllowed(file) ==
  \/ file.type \in {"text/plain", "text/markdown", ""}
  \/ Ext(file.name) = "txt"
  \/ Ext(file.name) = "md"

\* lines 156-176, up to reader.readAsText(file)
handleFileChange(file) ==
  /\ Len(reading) < MaxReading
  /\ IF ~file.chosen THEN UNCHANGED <<error, reading>>
     ELSE IF ~FileAllowed(file) THEN
       /\ error' = JStr(Lit("Only plain text files (.txt, .md) are supported in this version."))
       /\ UNCHANGED reading
     ELSE
       /\ reading' = Append(reading, file.text)
       /\ UNCHANGED error
  /\ UNCHANGED <<srv, mode, language, transcript, loading, notes, audioUrl, audioBlob,
                 history, storage, gen, now, reloads, made>>
  /\ download' = NoZip

Without(list, i) == SubSeq(list, 1, i - 1) \o SubSeq(list, i + 1, Len(list))

\* lines 168-171: reader.onload
ReaderOnload ==
  /\ \E i \in 1..Len(reading) :
       /\ transcript' = reading[i]
       /\ reading' = Without(reading, i)
  /\ UNCHANGED <<srv, mode, language, loading, notes, audioUrl, audioBlob, error,
                 history, storage, gen, now, reloads, made>>
  /\ download' = NoZip

\* lines 172-174: reader.onerror
ReaderOnerror ==
  /\ \E i \in 1..Len(reading) : reading' = Without(reading, i)
  /\ error' = JStr(Lit("Failed to read file."))
  /\ UNCHANGED <<srv, mode, language, transcript, loading, notes, audioUrl, audioBlob,
                 history, storage, gen, now, reloads, made>>
  /\ download' = NoZip

Files ==
  { File(<<"notes", "txt">>, "text/plain", <<"h", "i", " ">>),
    File(<<"notes", "md">>, "", <<" ", " ">>),
    File(<<"notes", "MD">>, "application/octet-stream", <<"h", "i", " ">>),
    File(<<"a", "txt", "pdf">>, "application/pdf", <<"%", "P", "D", "F">>),
    File(<<"report", "pdf">>, "application/pdf", <<"%", "P", "D", "F">>),
    File(<<"report", "PDF">>, "text/plain", <<"%", "P", "D", "F">>),
    File(<<"report", "pdf">>, "", <<"%", "P", "D", "F">>),
    File(<<"README">>, "", <<>>),
    File(<<"README">>, "application/octet-stream", <<"h", "i", " ">>) }

\* lines 27-36: useState's initial values
PageStart ==
  /\ mode' = Lit("notes")
  /\ language' = Lit("en")
  /\ transcript' = <<>>
  /\ loading' = FALSE
  /\ notes' = JStr(<<>>)
  /\ audioUrl' = 0
  /\ audioBlob' = NoBlob
  /\ error' = JNull
  /\ gen' = NoGen

\* the page is loaded again: lines 27-54; a fetch under way is abandoned,
\* the route goes on with its request
Reload ==
  /\ reloads < MaxReloads
  /\ reloads' = reloads + 1
  /\ PageStart
  /\ history' = LoadHistory(storage)
  /\ reading' = <<>>
  /\ caller' = IF caller = "page" THEN "gone" ELSE caller
  /\ download' = NoZip
  /\ UNCHANGED <<env, pc, wire, post, run, calls, resp, directs, storage, now, made>>

Transcripts == { <<" ", " ">>, <<"h", "i", " ">> }

----------------------------------------------------------------------------
(* The route, called by any client *)

\* the page has mounted in a browser that holds `stored` under HISTORY_KEY,
\* and the route has not been called
Start(stored) ==
  /\ env \in [OPENAI_API_KEY : BOOLEAN, OPENAI_ASSISTANT_ID : BOOLEAN]
  /\ pc = "idle"
  /\ caller = "none"
  /\ wire = <<>>
  /\ post = NoLocals
  /\ run = "none"
  /\ calls = <<>>
  /\ resp = NoResp
  /\ directs = 0
  /\ mode = Lit("notes")
  /\ language = Lit("en")
  /\ transcript = <<>>
  /\ loading = FALSE
  /\ notes = JStr(<<>>)
  /\ audioUrl = 0
  /\ audioBlob = NoBlob
  /\ error = JNull
  /\ history = LoadHistory(stored)
  /\ storage = stored
  /\ gen = NoGen
  /\ download = NoZip
  /\ now = 0
  /\ reloads = 0
  /\ made = <<>>
  /\ reading = <<>>

\* a browser that has not shown the page before
Init == Start(NoStorage)

Next ==
  \/ DirectRequest
  \/ PostEntry
  \/ ThreadsCreate
  \/ RunsCreate
  \/ RunsPoll
  \/ RunsSleep
  \/ RunAdvances
  \/ MessagesList(Messages)
  \/ SpeechCreate(Audio)

Spec == Init /\ [][Next]_vars

\* the event loop resumes POST whenever the call it awaits has settled, and
\* every remote call settles (the client times a call out); nothing makes
\* the remote service finish a run
FairSpec ==
  /\ Spec
  /\ WF_vars(PostEntry)
  /\ WF_vars(ThreadsCreate)
  /\ WF_vars(RunsCreate)
  /\ WF_vars(RunsPoll)
  /\ WF_vars(RunsSleep)
  /\ WF_vars(MessagesList(Messages))
  /\ WF_vars(SpeechCreate(Audio))

----------------------------------------------------------------------------
(* The page and the route it calls; the language is chosen on the first    *)
(* visit, before the transcript is entered                                  *)

PageMessages ==
  { <<UserMsg>>,
    <<Msg("assistant", <<TextPart(ReplyProse)>>), UserMsg>>,
    <<Msg("assistant", <<TextPart(ReplyNoNotes)>>), UserMsg>>,
    <<Msg("assistant", <<TextPart(Reply(JNum(<<"7">>), JUndefined))>>), UserMsg>> }
  \cup { <<Msg("assistant", <<TextPart(Reply(JStr(Notes(n)), JStr(<<"h", "i">>)))>>), UserMsg>> :
           n \in {3, SnippetLimit, SnippetLimit + 1} }

PageAudio == { <<>>, <<73, 68>> }

PageNext ==
  \/ ClickGenerate(MaxGen)
  \/ FetchResolves
  \/ FetchFails
  \/ handleDownloadZip
  \/ \E i \in 1..HistoryLimit : restoreFromHistory(i)
  \/ \E m \in {Lit("notes"), Lit("notes+audio")} : setMode(m)
  \/ (transcript = <<>> /\ reloads = 0) /\ \E l \in {Lit("en"), Lit("sv")} : setLanguage(l)
  \/ \E t \in Transcripts : setTranscript(t)
  \/ Reload
  \/ PostEntry
  \/ ThreadsCreate
  \/ RunsCreate
  \/ RunsPoll
  \/ RunsSleep
  \/ RunAdvances
  \/ MessagesList(PageMessages)
  \/ SpeechCreate(PageAudio)

PageSpec == Init /\ [][PageNext]_vars

----------------------------------------------------------------------------
(* A long session of the page: notes only, in English, and the assistant   *)
(* writes the same notes every time                                         *)

LongMessages ==
  { <<UserMsg>>,
    <<Msg("assistant", <<TextPart(ReplyFull)>>), UserMsg>> }

HistoryNext ==
  \/ ClickGenerate(MaxLongGen)
  \/ FetchResolves
  \/ FetchFails
  \/ handleDownloadZip
  \/ \E i \in 1..HistoryLimit : restoreFromHistory(i)
  \/ setTranscript(<<"h", "i", " ">>)
  \/ Reload
  \/ PostEntry
  \/ ThreadsCreate
  \/ RunsCreate
  \/ RunsPoll
  \/ RunsSleep
  \/ RunAdvances
  \/ MessagesList(LongMessages)

HistorySpec == Init /\ [][HistoryNext]_vars

----------------------------------------------------------------------------
(* The page with its file upload *)

UploadNext ==
  \/ \E file \in Files \cup {NoFile} : handleFileChange(file)
  \/ ReaderOnload
  \/ ReaderOnerror
  \/ setTranscript(<<" ", " ">>)
  \/ ClickGenerate(MaxGen)
  \/ FetchResolves
  \/ FetchFails
  \/ Reload
  \/ PostEntry
  \/ ThreadsCreate
  \/ RunsCreate
  \/ RunsPoll
  \/ RunsSleep
  \/ RunAdvances
  \/ MessagesList(LongMessages)

UploadSpec == Init /\ [][UploadNext]_vars

----------------------------------------------------------------------------
(* The page in a browser that may hold a list from earlier visits *)

OldItem ==
  JObj(Members([ id |-> JStr(Lit("old")),
                 createdAt |-> JStr(Lit("ISO old")),
                 mode |-> JStr(Lit("notes+audio")),
                 language |-> JStr(Lit("sv")),
                 notesSnippet |-> JStr(<<"o", "l", "d">>) ]))

\* what localStorage may hold under HISTORY_KEY: nothing, the empty text, a
\* text that is not JSON, an empty list, a list the page stored
Stored ==
  { NoStorage,
    [present |-> TRUE, text |-> <<>>],
    [present |-> TRUE, text |-> <<Tok("["), Tok("{")>>],
    [present |-> TRUE, text |-> HistoryToks(<<>>)],
    [present |-> TRUE, text |-> HistoryToks(<<OldItem>>)] }

StartupInit == \E stored \in Stored : Start(stored)

StartupNext ==
  \/ ClickGenerate(MaxGen)
  \/ FetchResolves
  \/ FetchFails
  \/ \E i \in 1..HistoryLimit : restoreFromHistory(i)
  \/ setTranscript(<<"h", "i", " ">>)
  \/ Reload
  \/ PostEntry
  \/ ThreadsCreate
  \/ RunsCreate
  \/ RunsPoll
  \/ RunsSleep
  \/ RunAdvances
  \/ MessagesList(LongMessages)

StartupSpec == StartupInit /\ [][StartupNext]_vars

----------------------------------------------------------------------------
(* Properties of the route *)

Configured == env.OPENAI_API_KEY /\ env.OPENAI_ASSISTANT_ID

\* the request, and the response once POST has returned, decoded
Request == JsonParse(wire)
Answered == pc = "done"
Answer == JsonParse(resp.body).v

Has(key) == Answer.k = "obj" /\ Lit(key) \in DOMAIN Answer.m
Called(op) == \E i \in 1..Len(calls) : calls[i].op = op
Contains(text, unit) == \E i \in 1..Len(text) : text[i] = unit

RequestMode == Get(Request.v, "mode")
RequestTranscript == Get(Request.v, "transcript")

\* the request's transcript is missing, empty or only white space
TranscriptBlank ==
  /\ Request.ok
  /\ \/ RequestTranscript.k \in {"undefined", "null"}
     \/ RequestTranscript.k = "str" /\ TrimEnd(TrimStart(RequestTranscript.s)) = <<>>

\* C1: a success response to a request whose mode is "notes" or missing has
\* audioBase64 = null and mimeType = null
C1_NotesModeHasNoAudio ==
  (Answered /\ resp.status = 200 /\ RequestMode \in {JUndefined, JStr(Lit("notes"))})
    => /\ Get(Answer, "audioBase64") = JNull
       /\ Get(Answer, "mimeType") = JNull

C1_Witness ==
  /\ Answered /\ resp.status = 200 /\ RequestMode = JUndefined
  /\ Called("messages.list")

\* C2: a success response to a request whose mode is "notes+audio" has
\* audioBase64 and mimeType both non-null, and mimeType = "audio/mpeg"
C2_AudioModeHasAudio ==
  (Answered /\ resp.status = 200 /\ RequestMode = JStr(Lit("notes+audio")))
    => /\ Get(Answer, "audioBase64").k = "str"
       /\ Get(Answer, "mimeType") = JStr(Lit("audio/mpeg"))
       /\ Called("audio.speech.create")

C2_Witness ==
  /\ Answered /\ resp.status = 200 /\ RequestMode = JStr(Lit("notes+audio"))
  /\ Get(Answer, "audioBase64").s # <<>>

C4_MissingSecretFailsFast ==
  (~env.OPENAI_API_KEY \/ ~env.OPENAI_ASSISTANT_ID)
    => /\ calls = <<>>
       /\ pc \in {"idle", "POST", "done"}
       /\ Answered
            => /\ resp.status = 500
               /\ Get(Answer, "error") =
                    JStr(<< IF ~env.OPENAI_API_KEY THEN "OPENAI_API_KEY"
                            ELSE "OPENAI_ASSISTANT_ID", " is not set" >>)

C4_Witness ==
  /\ env.OPENAI_API_KEY /\ ~env.OPENAI_ASSISTANT_ID
  /\ Answered
  /\ RequestTranscript.k = "str" /\ RequestTranscript.s # <<>> /\ ~TranscriptBlank

\* C5: a request rejected for validation (malformed JSON, blank transcript)
\* is answered 400 and no remote call was made for it
C5_ValidationBeforeRemote ==
  /\ (Answered /\ resp.status = 400)
       => /\ calls = <<>>
          /\ Get(Answer, "error") \in
               {JStr(Lit("Invalid JSON")), JStr(Lit("Transcript is empty"))}
  /\ (Configured /\ pc \notin {"idle", "POST"}
        /\ (~Request.ok \/ (TranscriptBlank /\ Request.v.k # "null")))
       => (Answered /\ resp.status = 400 /\ calls = <<>>)

C5_Witness ==
  /\ Answered /\ resp.status = 400 /\ ~Request.ok

\* C6: when the run createAndPoll returned is not completed, POST answers 500
\* with a message that holds the status, and neither lists the messages nor
\* asks for speech
C6_RunNotCompleted ==
  (post.run \in Terminal \ {"completed"})
    => /\ Answered
       /\ resp.status = 500
       /\ Get(Answer, "error").k = "str"
       /\ Contains(Get(Answer, "error").s, post.run)
       /\ ~Called("messages.list")
       /\ ~Called("audio.speech.create")

C6_Witness ==
  /\ post.run = "expired"
  /\ post.mode = JStr(Lit("notes+audio"))
  /\ Answered

\* C7: every request that POST has received is answered in the end, also
\* when the remote run never reaches a terminal state
C7_EveryRequestAnswered == (pc = "POST") ~> (pc = "done")

\* C8: no response carries notes together with an error; when speech
\* synthesis fails the answer is 500 with the error message alone
C8_AllOrNothing ==
  Answered
    => /\ ~(Has("notes_markdown") /\ Has("error"))
       /\ (Called("audio.speech.create") /\ resp.status # 200)
            => /\ resp.status = 500
               /\ DOMAIN Answer.m = {Lit("error")}

C8_Witness ==
  /\ Answered
  /\ Called("audio.speech.create")
  /\ resp.status = 500
  /\ post.notes_markdown.k = "str" /\ post.notes_markdown.s # <<>>

----------------------------------------------------------------------------
(* Properties of the page's history *)

\* the list stored under HISTORY_KEY, decoded
Persisted == LoadHistory(storage)

\* the items of the n generations recorded last, newest first
LastMade(n) == [i \in 1..n |-> made[i].item]

\* C9: the history, in memory and as stored, never has more than 20 entries,
\* and once more than 20 generations were recorded it holds exactly the 20
\* recorded last, newest first
C9_HistoryKeepsLast20 ==
  /\ Len(history) <= 20
  /\ Len(Persisted) <= 20
  /\ Len(made) > 20
       => /\ history = LastMade(20)
          /\ Persisted = LastMade(20)

C9_Witness ==
  /\ Len(made) = 22
  /\ Len(history) = 20
  /\ Get(history[1], "id") = JStr(Lit("22"))
  /\ Get(history[20], "id") = JStr(Lit("3"))

\* C10: the notesSnippet of every entry of the history has at most 120
\* characters and is the first min(120, length) characters of the
\* notes_markdown of the generation that made the entry
C10_SnippetIsPrefix ==
  \A i \in 1..Len(history) :
    LET notesSnippet == Get(history[i], "notesSnippet")
    IN  /\ notesSnippet.k = "str"
        /\ Len(notesSnippet.s) <= 120
        /\ \E j \in 1..Len(made) :
             /\ Get(made[j].item, "id") = Get(history[i], "id")
             /\ Len(notesSnippet.s) = Min(120, Len(made[j].notes_markdown.s))
             /\ \A c \in 1..Len(notesSnippet.s) :
                  notesSnippet.s[c] = made[j].notes_markdown.s[c]

C10_Witness ==
  /\ reloads > 0
  /\ Len(history) = 2
  /\ Len(Get(history[1], "notesSnippet").s) = 120
  /\ Len(made[1].notes_markdown.s) = 121
  /\ Len(Get(history[2], "notesSnippet").s) = 3

----------------------------------------------------------------------------
(* Properties of the route's pipeline *)

\* the messages were listed for this request
Listed == Called("messages.list") /\ post.messages # <<>>

\* the first assistant message of the list, 0 if none
Assistant == FindAssistant(post.messages)

\* that message's first part is a text part
HasAssistantText ==
  /\ Listed
  /\ Assistant # 0
  /\ Len(post.messages[Assistant].content) >= 1
  /\ post.messages[Assistant].content[1].type = "text"

AssistantText == post.messages[Assistant].content[1].text

\* C12: when the first assistant message does not have exactly one content
\* part, a text part, the request fails with status 500 and an error
C12_ExactlyOneTextPart ==
  (Answered /\ Called("messages.list"))
    => ((\/ Assistant = 0
         \/ Len(post.messages[Assistant].content) # 1
         \/ post.messages[Assistant].content[1].type # "text")
          => (resp.status = 500 /\ Has("error")))

\* C13: when the assistant's text decodes to something that is not an object
\* or has no notes_markdown, no success response is returned
C13_NotesMarkdownRequired ==
  (Answered /\ HasAssistantText /\ JsonParse(AssistantText).ok)
    => ((\/ JsonParse(AssistantText).v.k # "obj"
         \/ Get(JsonParse(AssistantText).v, "notes_markdown").k = "undefined")
          => resp.status # 200)

\* C14: when the assistant's text is not JSON, the answer is 500 with the
\* error message and the text itself under raw, and nothing else
C14_ParseFailureCarriesRaw ==
  (Answered /\ HasAssistantText /\ ~JsonParse(AssistantText).ok)
    => /\ resp.status = 500
       /\ Get(Answer, "error") = JStr(Lit("Failed to parse JSON from assistant"))
       /\ Get(Answer, "raw") = JStr(Render(AssistantText))
       /\ DOMAIN Answer.m = {Lit("error"), Lit("raw")}
       /\ ~Called("audio.speech.create")

C14_Witness ==
  /\ Answered /\ HasAssistantText
  /\ AssistantText = ReplyCut
  /\ Has("raw")
  /\ post.mode = JStr(Lit("notes+audio"))

\* C15: speech synthesis is called only for requests whose mode is
\* "notes+audio"
C15_SpeechOnlyForAudioMode ==
  Called("audio.speech.create") => RequestMode = JStr(Lit("notes+audio"))

Pipeline == <<"threads.create", "runs.create", "messages.list", "audio.speech.create">>

\* the request passed the checks of lines 19-48
Validated ==
  /\ Configured
  /\ Request.ok
  /\ RequestTranscript.k = "str"
  /\ TrimEnd(TrimStart(RequestTranscript.s)) # <<>>

\* C16: the remote operations of a request are called in the order of the
\* pipeline, each at most once and each only after the one before succeeded;
\* a validated request creates exactly one thread; the first failure is the
\* answer, and nothing is called after it
C16_SequentialSingleAttempt ==
  /\ Len(calls) <= Len(Pipeline)
  /\ \A i \in 1..Len(calls) : calls[i].op = Pipeline[i]
  /\ pc \in {"idle", "POST", "threads.create"} => calls = <<>>
  /\ pc = "runs.create" => Len(calls) = 1
  /\ pc \in {"runs.poll", "runs.sleep"} => Len(calls) = 2
  /\ pc = "messages.list" => (Len(calls) = 2 /\ post.run = "completed")
  /\ pc = "speech.create" => (Len(calls) = 3 /\ post.notes_markdown.k = "str")
  /\ Answered
       => /\ resp.status \in {200, 400, 500}
          /\ Validated <=> Len(calls) >= 1
          /\ resp.status = 200 => Len(calls) \in {3, 4}
          /\ Len(calls) >= 3 => post.run = "completed"
          /\ Len(calls) = 4 => post.notes_markdown.k \in {"str", "num"}

C16_Witness ==
  /\ Answered
  /\ Len(calls) = 4
  /\ resp.status = 500

----------------------------------------------------------------------------
(* Properties of the page *)

Marker == <<" ", ".", ".", ".">>
Absent(v) == v.k \in {"undefined", "null"}

\* C11: Download ZIP with empty notes sets the no-content error and saves no
\* archive; with notes and no audio blob the archive holds exactly
\* meeting_notes.md; with an audio blob it holds exactly meeting_notes.md and
\* meeting_recap.mp3
C11_BundleContents ==
  [][handleDownloadZip =>
       /\ (notes = JStr(<<>>))
            => /\ ~download'.saved
               /\ error' = JStr(Lit("There are no notes to download yet."))
       /\ (notes.k = "str" /\ notes.s # <<>>)
            => /\ download'.saved
               /\ download'.notes = notes
               /\ error' = error
               /\ ~audioBlob.present => download'.names = {"meeting_notes.md"}
               /\ audioBlob.present
                    => /\ download'.names = {"meeting_notes.md", "meeting_recap.mp3"}
                       /\ download'.audio = audioBlob]_vars

C11_Witness ==
  /\ download.saved
  /\ download.names = {"meeting_notes.md", "meeting_recap.mp3"}
  /\ download.audio.bytes # <<>>

\* C18: restoreFromHistory shows the stored snippet, followed by " ..." when
\* the snippet has exactly 120 characters and unchanged otherwise; what it
\* shows is never the longer original, and the history and the stored list
\* stay as they were
C18_RestoreShowsSnippet ==
  [][\A i \in 1..HistoryLimit :
       restoreFromHistory(i) =>
         LET notesSnippet == Get(history[i], "notesSnippet").s
         IN  /\ Len(notesSnippet) = 120 => notes' = JStr(notesSnippet \o Marker)
             /\ Len(notesSnippet) # 120 => notes' = JStr(notesSnippet)
             /\ history' = history
             /\ storage' = storage
             /\ \A j \in 1..Len(made) :
                  (/\ Get(made[j].item, "id") = Get(history[i], "id")
                   /\ Len(made[j].notes_markdown.s) > 120)
                    => notes' # made[j].notes_markdown]_vars

C18_Witness ==
  /\ \E i \in 1..Len(history) :
       /\ Len(Get(history[i], "notesSnippet").s) = 120
       /\ notes = JStr(Get(history[i], "notesSnippet").s \o Marker)
  /\ \E j \in 1..Len(made) : Len(made[j].notes_markdown.s) = 121

\* C20: in every response of POST audioBase64 and mimeType are both there or
\* both null or missing, and the page makes its audio blob only from a
\* response that has both
C20_AudioFieldsPaired ==
  [][/\ (pc' = "done")
          => LET answer == JsonParse(resp'.body).v
             IN  Absent(Get(answer, "audioBase64")) <=> Absent(Get(answer, "mimeType"))
     /\ (audioBlob'.present /\ audioBlob' # audioBlob)
          => /\ Get(Answer, "audioBase64").k = "str"
             /\ Get(Answer, "mimeType").k = "str"
             /\ Get(Answer, "audioBase64").s # <<>>
             /\ audioBlob'.type = Get(Answer, "mimeType").s]_vars

C20_Witness ==
  /\ audioBlob.present
  /\ audioBlob.bytes = <<73, 68>>
  /\ audioBlob.type = Lit("audio/mpeg")

\* C17: once the caller has given the request up while POST waits for the
\* run, POST goes on to no later step
C17_AbortStopsPipeline ==
  [][(caller = "gone" /\ pc \in {"runs.poll", "runs.sleep"})
       => pc' # "messages.list"]_vars

\* C19: a file whose extension is pdf is refused with the file-type error,
\* whatever type the browser reports: no reader is started for it, and the
\* transcript and the route are left alone
C19_PdfAlwaysRejected ==
  [][\A file \in Files :
       (Ext(file.name) = "pdf" /\ handleFileChange(file))
         => /\ error' =
                 JStr(Lit("Only plain text files (.txt, .md) are supported in this version."))
            /\ reading' = reading
            /\ transcript' = transcript
            /\ pc' = pc]_vars

----------------------------------------------------------------------------
(* Properties of the page's generations *)

\* this step ends the handleGenerate that was waiting, in the same page
Ended == gen.active /\ ~gen'.active /\ reloads' = reloads

\* the list `list` with `item` put in front, cut to 20
Prepended(item, list) == SubSeq(<<item>> \o list, 1, Min(20, Len(list) + 1))

\* C21: within one page, a step that records a generation makes the history
\* the new entry followed by the history as it was, cut to 20, and no other
\* step changes the history
C21_NoEntryLost ==
  [][reloads' = reloads
       => /\ made' # made
               => /\ Len(made') = Len(made) + 1
                  /\ history' = Prepended(made'[1].item, history)
          /\ made' = made => history' = history]_vars

C21_Witness ==
  /\ reloads = 0
  /\ Len(made) = 21
  /\ Len(history) = 20
  /\ Get(history[20], "id") = JStr(Lit("2"))
  /\ notes = JStr(Get(history[20], "notesSnippet").s)

\* C23: an archive that holds meeting_recap.mp3 holds, as meeting_notes.md,
\* the notes of the generation that returned that audio, in full or as the
\* snippet restored from its entry
C23_BundleFromOneGeneration ==
  (download.saved /\ "meeting_recap.mp3" \in download.names)
    => \E j \in 1..Len(made) :
         /\ Get(made[j].item, "id") = JStr(Lit(ToString(audioUrl)))
         /\ LET notesSnippet == Get(made[j].item, "notesSnippet").s
            IN  download.notes \in
                  { made[j].notes_markdown,
                    JStr(notesSnippet),
                    JStr(notesSnippet \o Marker) }

\* C24: the history and the stored list change only in the step that ends a
\* generation answered 200, which puts exactly one new entry in front; a
\* generation that fails leaves both as they were
C24_OnlySuccessRecords ==
  [][reloads' = reloads
       => /\ (history' # history \/ storage' # storage)
               => /\ Ended /\ pc = "done" /\ resp.status = 200
                  /\ Len(made') = Len(made) + 1
                  /\ history' = Prepended(made'[1].item, history)
                  /\ \A i \in 1..Len(history) :
                       Get(history[i], "id") # Get(made'[1].item, "id")
                  /\ JsonParse(storage'.text) = ParseOk(JArr(history'))
          /\ (Ended /\ (pc # "done" \/ resp.status # 200
                          \/ error' = JStr(Lit("Failed to fetch"))))
               => (history' = history /\ storage' = storage /\ made' = made)
          /\ (Ended /\ pc = "done" /\ resp.status = 200
                 /\ Get(Answer, "notes_markdown").k = "str"
                 /\ error' # JStr(Lit("Failed to fetch")))
               => made' # made
          /\ (~gen.active /\ ~gen'.active)
               => (history' = history /\ storage' = storage)]_vars

C24_Witness ==
  /\ Len(history) = 1
  /\ Len(made) = 1
  /\ now = 1
  /\ ~loading
  /\ error.k = "str" /\ error.s # <<>> /\ error.s[1] = "Error "

\* C25: when a generation ends and shows an error, no notes and no audio are
\* shown, and loading is off after every end
C25_ErrorShowsNothing ==
  [][Ended
       => /\ ~loading'
          /\ (error' # JNull /\ error' # error)
               => /\ notes' = JStr(<<>>)
                  /\ ~audioBlob'.present
                  /\ audioUrl' = 0]_vars

\* C22: the history in memory is at all times the list decoded from the text
\* stored under HISTORY_KEY, the empty list when nothing is stored or the
\* text is not JSON: every recording stores the whole list, and a page that
\* starts loads it
C22_WriteThrough ==
  /\ history = Persisted
  /\ made # <<>>
       => /\ storage.present
          /\ JsonParse(storage.text) = ParseOk(JArr(history))

C22_Witness ==
  /\ reloads = 1
  /\ Len(made) = 2
  /\ Len(history) = 3
  /\ history[3] = OldItem
  /\ Get(history[1], "id") = JStr(Lit("2"))

====
